---- MODULE Spec2Model ----
(***************************************************************************)
(* Model of dump.py: the host side of the Zeal 8-bit cartridge save dump.  *)
(* The script opens the serial node and the output file, sends '!', reads  *)
(* a 4-byte header ('=', bank count, bank size LE16), reads                *)
(* bank count * bank size payload bytes and writes them to the file.       *)
(*                                                                         *)
(* ser.read(n) is pyserial's timed read: it keeps collecting fragments     *)
(* from the device until n bytes are buffered or the timeout elapses, and  *)
(* then returns what it has (possibly fewer than n bytes, possibly none).  *)
(* A vanished device makes it raise SerialException.                       *)
(***************************************************************************)
EXTENDS Integers, Sequences, FiniteSets, TLC

\* ---------------------------------------------------------------- bounds
\* longest byte stream the device sends in one run (header included)
MaxWire == 8

\* values the device may send in the four header positions
HeaderByteSample == {0, 1, 2, 61, 255}

\* values the device may send after the header
PayloadByteSample == {85, 170}

\* content of the output path before the run, when the file already existed
OldContent == <<99>>

\* ------------------------------------------------------ program constants
\* ser.write(b'!')
TriggerByte == 33

\* ser.read(4)
HeaderSize == 4

\* ord('=')
Marker == 61

\* ------------------------------------------------------------- helpers
Min(a, b) == IF a < b THEN a ELSE b

SeqsUpTo(S, n) == UNION {[1..k -> S] : k \in 0..n}

\* every stream the device may send: up to four header bytes, then payload
Wires ==
    SeqsUpTo(HeaderByteSample, Min(HeaderSize - 1, MaxWire))
    \cup {h \o p : h \in [1..HeaderSize -> HeaderByteSample],
                   p \in SeqsUpTo(PayloadByteSample, MaxWire - HeaderSize)}

\* Python's b[i] on a bytes object succeeds iff 0 <= i < len(b)
HasIndex(b, i) == i >= 0 /\ i < Len(b)

\* Python's b[i] (0-based) where it is defined
Item(b, i) == b[i + 1]

\* a | b on non-negative integers
RECURSIVE BitOr(_, _)
BitOr(a, b) ==
    IF a = 0 THEN b
    ELSE IF b = 0 THEN a
    ELSE (IF a % 2 = 1 \/ b % 2 = 1 THEN 1 ELSE 0)
         + 2 * BitOr(a \div 2, b \div 2)

\* a << n on non-negative integers (Python integers are unbounded)
ShiftLeft(a, n) == a * (2 ^ n)

\* variants of MarkerOk: test dropped, test inverted
MarkerOkMut(b) == TRUE
MarkerOkInv(b) == Item(b, 0) # Marker

\* bytes[0] != ord('=') is false
MarkerOk(b) == Item(b, 0) = Marker

\* bank_num = bytes[1]
BankNum(b) == Item(b, 1)

\* variant of BankSize: big-endian
BankSizeMut(b) == BitOr(ShiftLeft(Item(b, 2), 8), Item(b, 3))

\* bank_size = (bytes[2]) | (bytes[3] << 8)
BankSize(b) == BitOr(Item(b, 2), ShiftLeft(Item(b, 3), 8))

\* variant of Total: sum instead of product
TotalMut(n, s) == n + s

\* total = bank_num * bank_size
Total(n, s) == n * s

\* variant of ReadMore: the read returns after the first fragment
ReadMoreMut(buf, size) == Len(buf) = 0 /\ size > 0

\* pyserial's read loop goes on while fewer than size bytes are buffered
ReadMore(buf, size) == Len(buf) < size

\* -------------------------------------------------------------- state
VARIABLES
    pc,          \* next statement of the script
    wire,        \* the byte stream the device sends during this run
    pos,         \* how many bytes of wire the host has consumed
    rbuf,        \* buffer of the ser.read call in progress
    rxlog,       \* one record per ser.read call: size, fragments, how it ended
    bytes,       \* the script's variable bytes
    header,      \* what ser.read(4) returned
    bank_num,    \* the script's variable bank_num
    bank_size,   \* the script's variable bank_size
    total,       \* the script's variable total
    chanWrites,  \* bytes handed to ser.write, in order
    outfile,     \* "none", "open" or "closed"
    sink,        \* content of the output path
    sinkWrites,  \* number of outfile.write calls
    stdout,      \* messages printed
    exc,         \* uncaught exception that ended the script, or "none"
    exitCode     \* process exit status, -1 while running

vars == <<pc, wire, pos, rbuf, rxlog, bytes, header, bank_num, bank_size,
          total, chanWrites, outfile, sink, sinkWrites, stdout, exc, exitCode>>

hostVars == <<bytes, header, bank_num, bank_size, total>>
chanVars == <<wire, pos, rbuf, rxlog, chanWrites>>
fileVars == <<outfile, sink, sinkWrites>>

Init ==
    /\ pc = "open_serial"
    /\ wire \in Wires
    /\ pos = 0
    /\ rbuf = <<>>
    /\ rxlog = <<>>
    /\ bytes = <<>>
    /\ header = <<>>
    /\ bank_num = 0
    /\ bank_size = 0
    /\ total = 0
    /\ chanWrites = <<>>
    /\ outfile = "none"
    /\ sink \in {<<>>, OldContent}
    /\ sinkWrites = 0
    /\ stdout = <<>>
    /\ exc = "none"
    /\ exitCode = -1

\* an uncaught exception: traceback, exit status 1, nothing else runs
Raise(e) ==
    /\ exc' = e
    /\ exitCode' = 1
    /\ pc' = "exited"

\* ser = serial.Serial(args.ttynode, args.baudrate, timeout=args.baudrate)
OpenSerial ==
    /\ pc = "open_serial"
    /\ \/ /\ pc' = "open_outfile"
          /\ UNCHANGED <<exc, exitCode>>
       \/ Raise("SerialException")
    /\ UNCHANGED <<hostVars, chanVars, fileVars, stdout>>

\* variant of OpenOutfile: the file is opened without truncation
OpenOutfileKeep ==
    /\ pc = "open_outfile"
    /\ \/ /\ outfile' = "open"
          /\ sink' = sink
          /\ pc' = "send_trigger"
          /\ UNCHANGED <<exc, exitCode>>
       \/ /\ Raise("OSError")
          /\ UNCHANGED <<outfile, sink>>
    /\ UNCHANGED <<hostVars, chanVars, sinkWrites, stdout>>

\* outfile = open(args.outfile, "wb")
OpenOutfile ==
    /\ pc = "open_outfile"
    /\ \/ /\ outfile' = "open"
          /\ sink' = <<>>
          /\ pc' = "send_trigger"
          /\ UNCHANGED <<exc, exitCode>>
       \/ /\ Raise("OSError")
          /\ UNCHANGED <<outfile, sink>>
    /\ UNCHANGED <<hostVars, chanVars, sinkWrites, stdout>>

\* variant of SendTrigger: the trigger byte is never sent
SendTriggerMut ==
    /\ pc = "send_trigger"
    /\ pc' = "read_header"
    /\ UNCHANGED <<hostVars, chanVars, fileVars, stdout, exc, exitCode>>

\* variant of SendTrigger: a failed write is swallowed and the script goes on
SendTriggerSwallow ==
    /\ pc = "send_trigger"
    /\ chanWrites' = Append(chanWrites, TriggerByte)
    /\ pc' = "read_header"
    /\ \/ UNCHANGED <<exc, exitCode>>
       \/ /\ exc' = "SerialException"
          /\ exitCode' = exitCode
    /\ UNCHANGED <<hostVars, wire, pos, rbuf, rxlog, fileVars, stdout>>

\* ser.write(b'!')
SendTrigger ==
    /\ pc = "send_trigger"
    /\ chanWrites' = Append(chanWrites, TriggerByte)
    /\ \/ /\ pc' = "read_header"
          /\ UNCHANGED <<exc, exitCode>>
       \/ Raise("SerialException")
    /\ UNCHANGED <<hostVars, wire, pos, rbuf, rxlog, fileVars, stdout>>

\* the call ser.read(size) is entered
EnterRead(size, rxpc) ==
    /\ rxlog' = Append(rxlog, [size |-> size, frags |-> 0, end |-> "pending"])
    /\ rbuf' = <<>>
    /\ pc' = rxpc
    /\ UNCHANGED <<hostVars, wire, pos, chanWrites, fileVars, stdout, exc,
                   exitCode>>

\* bytes = ser.read(4): the call
ReadHeaderCall ==
    /\ pc = "read_header"
    /\ EnterRead(HeaderSize, "header_rx")

InRead == pc \in {"header_rx", "payload_rx"}

CurSize == rxlog[Len(rxlog)].size

EndRead(how) ==
    rxlog' = [rxlog EXCEPT ![Len(rxlog)].end = how]

\* the value of ser.read is assigned to bytes and the script goes on
ReturnRead ==
    /\ bytes' = rbuf
    /\ IF pc = "header_rx"
       THEN /\ header' = rbuf
            /\ pc' = "check_marker"
       ELSE /\ header' = header
            /\ pc' = "write_sink"
    /\ UNCHANGED <<bank_num, bank_size, total, wire, pos, rbuf, chanWrites,
                   fileVars, stdout, exc, exitCode>>

\* variant of SerReadFragment: the read takes whatever the device has sent,
\* also beyond the requested size
SerReadFragmentGreedy ==
    /\ InRead
    /\ ReadMore(rbuf, CurSize)
    /\ pos < Len(wire)
    /\ \E k \in 1..(Len(wire) - pos) :
          /\ rbuf' = rbuf \o SubSeq(wire, pos + 1, pos + k)
          /\ pos' = pos + k
    /\ rxlog' = [rxlog EXCEPT ![Len(rxlog)].frags = @ + 1]
    /\ UNCHANGED <<pc, hostVars, wire, chanWrites, fileVars, stdout, exc,
                   exitCode>>

\* inside ser.read: the device delivers the next k bytes
SerReadFragment ==
    /\ InRead
    /\ ReadMore(rbuf, CurSize)
    /\ pos < Len(wire)
    /\ \E k \in 1..Min(CurSize - Len(rbuf), Len(wire) - pos) :
          /\ rbuf' = rbuf \o SubSeq(wire, pos + 1, pos + k)
          /\ pos' = pos + k
    /\ rxlog' = [rxlog EXCEPT ![Len(rxlog)].frags = @ + 1]
    /\ UNCHANGED <<pc, hostVars, wire, chanWrites, fileVars, stdout, exc,
                   exitCode>>

\* inside ser.read: the requested count is buffered, the call returns
SerReadFull ==
    /\ InRead
    /\ ~ReadMore(rbuf, CurSize)
    /\ EndRead("full")
    /\ ReturnRead

\* inside ser.read: the timeout elapses, the call returns what it has
SerReadTimeout ==
    /\ InRead
    /\ ReadMore(rbuf, CurSize)
    /\ EndRead("timeout")
    /\ ReturnRead

\* inside ser.read: the device node is gone, the call raises
SerReadClosed ==
    /\ InRead
    /\ ReadMore(rbuf, CurSize)
    /\ EndRead("closed")
    /\ Raise("SerialException")
    /\ UNCHANGED <<hostVars, wire, pos, rbuf, chanWrites, fileVars, stdout>>

\* variant of CheckMarker: a bad marker restarts the handshake
CheckMarkerRetry ==
    /\ pc = "check_marker"
    /\ IF ~HasIndex(bytes, 0)
       THEN /\ Raise("IndexError")
            /\ UNCHANGED stdout
       ELSE IF ~MarkerOk(bytes)
       THEN /\ stdout' = Append(stdout, <<"invalid_header", Item(bytes, 0)>>)
            /\ pc' = "send_trigger"
            /\ UNCHANGED <<exc, exitCode>>
       ELSE /\ pc' = "parse_header"
            /\ UNCHANGED <<stdout, exc, exitCode>>
    /\ UNCHANGED <<hostVars, chanVars, fileVars>>

\* if bytes[0] != ord('='): print(...); exit(1)
CheckMarker ==
    /\ pc = "check_marker"
    /\ IF ~HasIndex(bytes, 0)
       THEN /\ Raise("IndexError")
            /\ UNCHANGED stdout
       ELSE IF ~MarkerOk(bytes)
       THEN /\ stdout' = Append(stdout, <<"invalid_header", Item(bytes, 0)>>)
            /\ exitCode' = 1
            /\ pc' = "exited"
            /\ UNCHANGED exc
       ELSE /\ pc' = "parse_header"
            /\ UNCHANGED <<stdout, exc, exitCode>>
    /\ UNCHANGED <<hostVars, chanVars, fileVars>>

\* bank_num = bytes[1]; bank_size = ...; total = ...; print("Dumping ...")
ParseHeader ==
    /\ pc = "parse_header"
    /\ IF ~(HasIndex(bytes, 1) /\ HasIndex(bytes, 2) /\ HasIndex(bytes, 3))
       THEN /\ Raise("IndexError")
            /\ bank_num' = IF HasIndex(bytes, 1) THEN BankNum(bytes)
                           ELSE bank_num
            /\ UNCHANGED <<bank_size, total, stdout>>
       ELSE /\ bank_num' = BankNum(bytes)
            /\ bank_size' = BankSize(bytes)
            /\ total' = Total(BankNum(bytes), BankSize(bytes))
            /\ stdout' = Append(stdout,
                   <<"dumping", BankNum(bytes), BankSize(bytes),
                     Total(BankNum(bytes), BankSize(bytes))>>)
            /\ pc' = "read_payload"
            /\ UNCHANGED <<exc, exitCode>>
    /\ UNCHANGED <<bytes, header, chanVars, fileVars>>

\* bytes = ser.read(total): the call
ReadPayloadCall ==
    /\ pc = "read_payload"
    /\ EnterRead(total, "payload_rx")

\* variant of WriteSink: the header is written in front of the payload
WriteSinkWithHeader ==
    /\ pc = "write_sink"
    /\ sinkWrites' = sinkWrites + 1
    /\ \/ /\ sink' = sink \o header \o bytes
          /\ pc' = "print_success"
          /\ UNCHANGED <<exc, exitCode>>
       \/ /\ Len(bytes) > 0
          /\ \E n \in 0..(Len(bytes) - 1) : sink' = sink \o SubSeq(bytes, 1, n)
          /\ Raise("OSError")
    /\ UNCHANGED <<hostVars, chanVars, outfile, stdout>>

\* outfile.write(bytes)
WriteSink ==
    /\ pc = "write_sink"
    /\ sinkWrites' = sinkWrites + 1
    /\ \/ /\ sink' = sink \o bytes
          /\ pc' = "print_success"
          /\ UNCHANGED <<exc, exitCode>>
       \/ /\ Len(bytes) > 0
          /\ \E n \in 0..(Len(bytes) - 1) : sink' = sink \o SubSeq(bytes, 1, n)
          /\ Raise("OSError")
    /\ UNCHANGED <<hostVars, chanVars, outfile, stdout>>

\* print(args.outfile + " successfully dumped")
PrintSuccess ==
    /\ pc = "print_success"
    /\ stdout' = Append(stdout, <<"success">>)
    /\ pc' = "close_outfile"
    /\ UNCHANGED <<hostVars, chanVars, fileVars, exc, exitCode>>

\* outfile.close(), then the script ends
CloseOutfile ==
    /\ pc = "close_outfile"
    /\ outfile' = "closed"
    /\ exitCode' = 0
    /\ pc' = "exited"
    /\ UNCHANGED <<hostVars, chanVars, sink, sinkWrites, stdout, exc>>

Next ==
    \/ OpenSerial
    \/ OpenOutfile
    \/ SendTrigger
    \/ ReadHeaderCall
    \/ SerReadFragment
    \/ SerReadFull
    \/ SerReadTimeout
    \/ SerReadClosed
    \/ CheckMarker
    \/ ParseHeader
    \/ ReadPayloadCall
    \/ WriteSink
    \/ PrintSuccess
    \/ CloseOutfile

Spec == Init /\ [][Next]_vars

\* the script runs statement after statement and every ser.read call returns
\* or raises (the port is opened with a finite read timeout)
FairSpec == Spec /\ WF_vars(Next)

\* ------------------------------------------------- derived observations
\* the script has ended
Exited == pc = "exited"

\* the success message has been printed
Done == \E i \in DOMAIN stdout : stdout[i] = <<"success">>

\* the script ended with a non-zero exit status
Failed == Exited /\ exitCode # 0

\* the session proper (trigger onwards) was started: both opens succeeded
SessionStarted == outfile # "none"

\* ser.read(4) returned four bytes starting with '='
ValidHeader == Len(header) = 4 /\ header[1] = 61

\* bankCount * bankSize as the header on the wire declares it
DeclaredTotal == header[2] * (header[3] + 256 * header[4])

\* the payload bytes the device sent right after the header
DeclaredPayload == SubSeq(wire, 5, 4 + DeclaredTotal)

\* the header statements (lines 40-44) have run on a valid header
Parsed == ValidHeader /\ pc \notin {"check_marker", "parse_header"}

\* how the run classifies its failure, "none" if it reports none
ErrorKind ==
    IF exc # "none" THEN exc
    ELSE IF \E i \in DOMAIN stdout : stdout[i][1] = "invalid_header"
         THEN "ProtocolHeaderError"
         ELSE "none"

\* ------------------------------------------------------------- claims

\* C1: when the payload read times out with fewer bytes than the header
\* declares, the run never prints success, ends with a failure status, and
\* the sink holds the received bytes or nothing.
C1_ShortPayloadIsFailure ==
    (ValidHeader /\ Len(rxlog) = 2 /\ rxlog[2].end = "timeout")
        => /\ ~Done
           /\ pc \notin {"print_success", "close_outfile"}
           /\ (Exited => Failed)
           /\ (exc # "OSError" => sink \in {<<>>, rbuf})

\* C2: whenever the success message has been printed, the payload received
\* and the sink content both have exactly bankCount * bankSize bytes.
C2_SuccessMeansDeclaredLength ==
    Done => /\ Len(bytes) = DeclaredTotal
            /\ Len(sink) = DeclaredTotal

\* C3: a 4-byte header whose first byte is not '=' ends the run with the
\* invalid-header report carrying that byte and exit status 1; no second
\* channel read and no sink write ever happens.
C3_MarkerRejection ==
    (Len(header) = 4 /\ header[1] # 61)
        => /\ pc \in {"check_marker", "exited"}
           /\ (Exited => /\ exitCode = 1
                         /\ exc = "none"
                         /\ stdout = << <<"invalid_header", header[1]>> >>)
           /\ Len(rxlog) = 1
           /\ pos = 4
           /\ sinkWrites = 0
           /\ sink = <<>>

C3_Witness ==
    /\ Exited
    /\ Len(header) = 4
    /\ header[1] # 61
    /\ Len(wire) > 4
    /\ ErrorKind = "ProtocolHeaderError"

\* C4: the session hands exactly one byte, 0x21, to the channel, before the
\* first channel read, on every path that starts the session; nothing else
\* is ever written to the channel.
C4_ExactTrigger ==
    /\ chanWrites \in {<<>>, <<33>>}
    /\ (rxlog # <<>> => chanWrites = <<33>>)
    /\ (pc \notin {"open_serial", "open_outfile", "send_trigger"}
        /\ SessionStarted => chanWrites = <<33>>)

C4_Witness ==
    /\ Exited
    /\ chanWrites = <<33>>
    /\ Len(rxlog) = 2
    /\ pos > 4

\* C5: payload bytes are only read after the header read consumed exactly 4
\* bytes, and the sink is only written after the marker was found to be '='.
C5_HeaderBeforePayload ==
    /\ (Len(rxlog) <= 1 => pos <= 4)
    /\ (Len(rxlog) >= 2 => /\ Len(header) = 4
                           /\ rxlog[1] = [size |-> 4, frags |-> rxlog[1].frags,
                                          end |-> "full"]
                           /\ pos >= 4)
    /\ (pos > 4 => Len(header) = 4)
    /\ (sinkWrites > 0 => ValidHeader)
    /\ (outfile = "open" /\ ~ValidHeader => sink = <<>>)

C5_Witness ==
    /\ sinkWrites = 1
    /\ Len(sink) = 2
    /\ pos = 6
    /\ rxlog[1].frags >= 2

\* C6: a header read that times out with fewer than 4 bytes ends the run
\* with a failure classified as a short read, whatever bytes arrived, with
\* no payload read and no sink write.
C6_ShortHeaderIsShortRead ==
    (Len(rxlog) >= 1 /\ rxlog[1].end = "timeout")
        => /\ Len(rxlog) = 1
           /\ sinkWrites = 0
           /\ (Exited => Failed /\ ErrorKind = "ShortReadError")

C8_HeaderParsing ==
    Parsed => /\ bank_num = header[2]
              /\ bank_size = header[3] + 256 * header[4]
              /\ bank_size % 256 = header[3]
              /\ bank_size \div 256 = header[4]
              /\ total = DeclaredTotal
              /\ total <= 255 * 65535
              /\ (Len(rxlog) = 2 => rxlog[2].size = DeclaredTotal)

C8_Witness ==
    /\ Len(rxlog) = 2
    /\ Parsed
    /\ header[3] # header[4]
    /\ rxlog[2].size = 2 * (1 + 256 * 255)

\* C9: a valid header with bankCount = 0 or bankSize = 0 gives total = 0;
\* the run still issues the zero-length payload read and the empty sink
\* write, prints success and leaves the sink empty, without any error.
C9_ZeroSizeTransfer ==
    (Parsed /\ (header[2] = 0 \/ (header[3] = 0 /\ header[4] = 0)))
        => /\ total = 0
           /\ exc = "none"
           /\ sink = <<>>
           /\ (Len(rxlog) = 2 => rxlog[2].size = 0 /\ rxlog[2].frags = 0
                                 /\ rxlog[2].end \in {"pending", "full"})
           /\ (Exited => /\ Done
                         /\ exitCode = 0
                         /\ Len(rxlog) = 2
                         /\ sinkWrites = 1)

C9_Witness ==
    /\ Exited
    /\ Done
    /\ ValidHeader
    /\ header[2] = 2
    /\ header[3] = 0
    /\ header[4] = 0
    /\ sinkWrites = 1
    /\ Len(wire) > 4

\* C10: every run that opened the output file and has ended has closed it.
C10_SinkClosedOnExit ==
    (Exited /\ outfile # "none") => outfile = "closed"

\* the trigger write raised: a SerialException after both opens succeeded
\* that no ser.read call raised
TriggerWriteFailed ==
    /\ exc = "SerialException"
    /\ SessionStarted
    /\ \A i \in DOMAIN rxlog : rxlog[i].end # "closed"

\* C11: when the trigger write fails, the run ends at once with a failure
\* status; no channel read and no sink write follows, and success is never
\* printed.
C11_TriggerWriteFailure ==
    TriggerWriteFailed
        => /\ Exited
           /\ Failed
           /\ rxlog = <<>>
           /\ pos = 0
           /\ sinkWrites = 0
           /\ sink = <<>>
           /\ stdout = <<>>
           /\ ~Done

C11_Witness ==
    /\ TriggerWriteFailed
    /\ Exited
    /\ chanWrites = <<33>>
    /\ Len(wire) > 4

\* the session state of the protocol description a script position stands for
SessionStateOf(p, code) ==
    IF p = "exited" /\ code # 0 THEN "Failed"
    ELSE IF p \in {"open_serial", "open_outfile", "send_trigger"} THEN "Idle"
    ELSE IF p \in {"read_header", "header_rx"} THEN "Triggered"
    ELSE IF p \in {"check_marker", "parse_header", "read_payload"}
         THEN "HeaderReceived"
    ELSE IF p = "payload_rx" THEN "Transferring"
    ELSE IF p = "write_sink" THEN "Writing"
    ELSE "Done"

StateRank(st) ==
    CASE st = "Idle" -> 0
      [] st = "Triggered" -> 1
      [] st = "HeaderReceived" -> 2
      [] st = "Transferring" -> 3
      [] st = "Writing" -> 4
      [] st = "Done" -> 5
      [] st = "Failed" -> 6

\* what one step of a forward-only single attempt may do
ForwardStep ==
    /\ pc # "exited"
    /\ SessionStateOf(pc, exitCode) # "Failed"
    /\ StateRank(SessionStateOf(pc', exitCode'))
         >= StateRank(SessionStateOf(pc, exitCode))
    /\ (SessionStateOf(pc', exitCode') = "Failed"
        \/ StateRank(SessionStateOf(pc', exitCode'))
             <= StateRank(SessionStateOf(pc, exitCode)) + 1)
    /\ (SessionStateOf(pc, exitCode) = "Done"
          => /\ SessionStateOf(pc', exitCode') = "Done"
             /\ UNCHANGED <<chanWrites, rxlog, pos, sink, sinkWrites>>)
    /\ Len(chanWrites') <= 1
    /\ Len(rxlog') <= 2
    /\ (Len(rxlog') > Len(rxlog)
          => pc \in {"read_header", "read_payload"} /\ pc' # pc)

\* C12: every step moves the session forward along Idle, Triggered,
\* HeaderReceived, Transferring, Writing, Done or to Failed, by at most one
\* state; nothing happens after the script has ended, no channel or sink
\* operation follows Done, and the trigger write, the header read and the
\* payload read each happen at most once.
C12_ForwardOnly == [][ForwardStep]_vars

C12_Witness ==
    /\ Exited
    /\ Failed
    /\ Len(rxlog) = 2
    /\ chanWrites = <<33>>
    /\ sinkWrites = 1

\* the payload bytes the channel has delivered so far (all after the header)
DeliveredPayload ==
    IF pos > 4 THEN SubSeq(wire, 5, pos) ELSE <<>>

\* s is a prefix of t
IsPrefix(s, t) == Len(s) <= Len(t) /\ s = SubSeq(t, 1, Len(s))

\* C13: once the output file is open, its content is a prefix of the payload
\* bytes delivered after the header (same bytes, same order), is never longer
\* than bankCount * bankSize, never contains the header bytes, and
\* outfile.write is called at most once.
C13_VerbatimSink ==
    SessionStarted
        => /\ IsPrefix(sink, DeliveredPayload)
           /\ (sink # <<>> => ValidHeader /\ Len(sink) <= DeclaredTotal)
           /\ (sinkWrites = 0 => sink = <<>>)
           /\ \A i \in DOMAIN sink : sink[i] = wire[4 + i]
           /\ sinkWrites <= 1

C13_Witness ==
    /\ Exited
    /\ sinkWrites = 1
    /\ Len(sink) = 3
    /\ sink[2] # sink[3]
    /\ pos = 8
    /\ exc = "OSError"

\* the payload read ended because the channel went silent or was closed
PayloadCutOff ==
    /\ Len(rxlog) = 2
    /\ rxlog[2].end \in {"timeout", "closed"}

\* C14: every run eventually ends in Done or Failed, and a run whose payload
\* read is cut off by silence or closure eventually ends in Failed.
C14_TerminatesFailedOnCutOff ==
    /\ <>(Exited /\ (Done \/ Failed))
    /\ (PayloadCutOff ~> Failed)

\* the run ended at the trigger write, the header read or the marker test
EndedBeforePayload ==
    /\ Exited
    /\ SessionStarted
    /\ Len(rxlog) <= 1

\* C15: the output file is opened, and thereby emptied, before the trigger
\* is sent and before any header byte is looked at; a run that ends at the
\* trigger, header or marker step leaves the output path existing with zero
\* bytes, whatever it held before.
C15_EmptyFileOnEarlyFailure ==
    /\ (chanWrites # <<>> \/ rxlog # <<>> \/ pc = "send_trigger"
          => outfile # "none")
    /\ (SessionStarted /\ sinkWrites = 0 => sink = <<>> /\ sink # OldContent)
    /\ (EndedBeforePayload => /\ Failed
                              /\ outfile = "open"
                              /\ sinkWrites = 0
                              /\ sink = <<>>)

C15_Witness ==
    /\ EndedBeforePayload
    /\ Len(header) = 4
    /\ ErrorKind = "ProtocolHeaderError"
    /\ sink = <<>>
    /\ outfile = "open"

\* C16: a run issues at most two read requests, the first for 4 bytes and
\* the second for bankCount * bankSize bytes, consumes at most
\* 4 + bankCount * bankSize bytes of what the device sends, and nothing the
\* device sends beyond that reaches the script or the sink.
C16_BoundedConsumption ==
    /\ Len(rxlog) <= 2
    /\ (Len(rxlog) >= 1 => rxlog[1].size = 4)
    /\ (Len(rxlog) <= 1 => pos <= 4 /\ Len(rbuf) <= 4)
    /\ (Len(rxlog) = 2 => /\ ValidHeader
                          /\ rxlog[2].size = DeclaredTotal
                          /\ pos <= 4 + DeclaredTotal
                          /\ Len(rbuf) <= DeclaredTotal
                          /\ Len(bytes) <= Len(rbuf) + 4)
    /\ Len(header) <= 4
    /\ (SessionStarted => Len(sink) <= (IF pos > 4 THEN pos - 4 ELSE 0))

C16_Witness ==
    /\ Exited
    /\ Done
    /\ ValidHeader
    /\ DeclaredTotal = 2
    /\ pos = 6
    /\ Len(wire) = 8
    /\ Len(sink) = 2

====
